---- MODULE Spec2Model ----
(***************************************************************************)
(* A model of src/src/App.jsx: the useWaterData loader (two startup        *)
(* fetches joined by Promise.all), the map layer's onEachFeature, the      *)
(* root component's selection state and derived lookup, and the chart      *)
(* component's choice between a placeholder and a line chart.              *)
(*                                                                         *)
(* JavaScript strings that the code inspects (district names, dataset      *)
(* keys) are sequences of one-character strings, so that trim() and        *)
(* toLowerCase() are computed and not assumed.  JavaScript values that     *)
(* the code tests for truthiness are records tagged by their type.         *)
(***************************************************************************)
EXTENDS Naturals, Sequences, FiniteSets, TLC

\* ------------------------------------------------------------- bounds
MaxClicks == 2
MaxFeatures == 2
MaxKeys == 2

\* ------------------------------------------------------ JavaScript values
Null == [t |-> "null"]
Undefined == [t |-> "undefined"]
Str(s) == [t |-> "string", v |-> s]
\* An object seen through its own enumerable entries, in order.
Series(entries) == [t |-> "object", entries |-> entries]
\* Object.prototype.constructor: a function, no own enumerable keys.
ObjectConstructor == [t |-> "function", entries |-> <<>>]
Message(text) == [t |-> "message", v |-> text]

\* ToBoolean: null, undefined and "" are falsy, every object is truthy.
Truthy(x) ==
  CASE x.t = "null" -> FALSE
    [] x.t = "undefined" -> FALSE
    [] x.t = "string" -> x.v # <<>>
    [] x.t = "message" -> x.v # ""
    [] OTHER -> TRUE

\* String.prototype.trim over the model's alphabet (" " is its whitespace).
RECURSIVE TrimStart(_)
TrimStart(s) ==
  IF s = <<>> THEN s
  ELSE IF Head(s) = " " THEN TrimStart(Tail(s)) ELSE s

RECURSIVE TrimEnd(_)
TrimEnd(s) ==
  IF s = <<>> THEN s
  ELSE IF s[Len(s)] = " " THEN TrimEnd(SubSeq(s, 1, Len(s) - 1)) ELSE s

Trim(s) == TrimEnd(TrimStart(s))

LowerChar(c) ==
  CASE c = "A" -> "a"
    [] c = "B" -> "b"
    [] c = "U" -> "u"
    [] OTHER -> c

\* String.prototype.toLowerCase.
ToLowerCase(s) == [i \in 1..Len(s) |-> LowerChar(s[i])]

\* ------------------------------------------------------------ the inputs
\* District display names a boundary feature may carry.
DisplayNames ==
  { <<"B", "a">>,
    <<" ", "b", "A", " ">>,
    <<" ">>,
    <<>>,
    <<"c", "o", "n", "s", "t", "r", "u", "c", "t", "o", "r">> }

\* The literal of line 71.
Unknown == <<"U", "n", "k", "n", "o", "w", "n">>

\* feature.properties: null, an object without DISTRICT, or one with it.
NoDistrict == [t |-> "object", DISTRICT |-> Undefined]
WithDistrict(n) == [t |-> "object", DISTRICT |-> Str(n)]
FeatureProperties == {Null, NoDistrict} \cup {WithDistrict(n) : n \in DisplayNames}
Features == {[properties |-> p] : p \in FeatureProperties}

\* The parsed body of /api/boundaries: a feature collection.
FeatureCollection(fs) == [t |-> "object", features |-> fs]
Boundaries ==
  {FeatureCollection(fs) : fs \in {x \in SUBSET Features : Cardinality(x) <= MaxFeatures}}

\* A WaterSeries as its entries (year, value), the value in tenths of BCM.
WaterSeries ==
  { << <<2010, 12>>, <<2011, 15>> >>,
    << <<2010, 7>> >>,
    <<>> }

\* Keys a /api/tws payload may carry: normalized, not normalized, empty.
PayloadKeys == { <<"b", "a">>, <<"B", "a">>, <<>> }

\* The parsed body of /api/tws: a mapping from key to WaterSeries.
TwsPayloads ==
  UNION {[ks -> WaterSeries] : ks \in {x \in SUBSET PayloadKeys : Cardinality(x) <= MaxKeys}}

EmptyObject == [k \in {} |-> <<>>]

\* A response body: text that JSON.parse rejects, or text that it accepts.
Malformed == [t |-> "malformed"]
Json(v) == [t |-> "json", v |-> v]

Response(ok, body) == [ok |-> ok, body |-> body]

\* What the two endpoints may answer.  A non-2xx answer carries either an
\* unparseable error page or a well-formed body.
TwsResponses ==
  {Response(TRUE, Json(p)) : p \in TwsPayloads}
    \cup {Response(TRUE, Malformed), Response(FALSE, Malformed),
          Response(FALSE, Json((<<"b", "a">> :> << <<2010, 7>> >>)))}

GeojsonResponses ==
  {Response(TRUE, Json(b)) : b \in Boundaries}
    \cup {Response(TRUE, Malformed), Response(FALSE, Malformed),
          Response(FALSE, Json(FeatureCollection({[properties |-> NoDistrict]})))}

Pending == [state |-> "pending"]
Idle == [state |-> "idle"]
Fulfilled(r) == [state |-> "fulfilled", res |-> r]
Rejected == [state |-> "rejected"]

\* ------------------------------------------------------------- the state
VARIABLES
  data,              \* useWaterData: useState({ tws: {}, geojson: null })
  loading,           \* useWaterData: useState(true)
  error,             \* useWaterData: useState(null)
  selectedDistrict,  \* App: useState(null)
  pc,                \* where fetchData stands
  twsRes,            \* the promise of fetch(/api/tws)
  geojsonRes,        \* the promise of fetch(/api/boundaries)
  geojsonData,       \* fetchData's local, set by geojsonRes.json()
  layers,            \* the click listeners onEachFeature has attached
  mapState,          \* "none", "mounted" or "crashed"
  fetchCalls,        \* history: how many times each endpoint was requested
  clicks,            \* history: number of clicks so far
  lastClick          \* history: the name the most recent click reported

vars ==
  << data, loading, error, selectedDistrict, pc, twsRes, geojsonRes,
     geojsonData, layers, mapState, fetchCalls, clicks, lastClick >>

Init ==
  /\ data = [tws |-> EmptyObject, geojson |-> Null]
  /\ loading = TRUE
  /\ error = Null
  /\ selectedDistrict = Null
  /\ pc = "mount"
  /\ twsRes = Idle
  /\ geojsonRes = Idle
  /\ geojsonData = Undefined
  /\ layers = EmptyObject
  /\ mapState = "none"
  /\ fetchCalls = [tws |-> 0, boundaries |-> 0]
  /\ clicks = 0
  /\ lastClick = Null

\* ------------------------------------------------------------ rendering
\* obj[key] on a plain object: an own property, else the prototype chain
\* (of the keys the model can produce only "constructor" is inherited).
GetProperty(obj, key) ==
  IF key \in DOMAIN obj THEN Series(obj[key])
  ELSE IF key = <<"c", "o", "n", "s", "t", "r", "u", "c", "t", "o", "r">>
       THEN ObjectConstructor
       ELSE Undefined

\* Lines 177-179.
districtKey ==
  IF Truthy(selectedDistrict)
  THEN Str(ToLowerCase(Trim(selectedDistrict.v)))
  ELSE Null

\* Line 180.
selectedDistrictData ==
  IF Truthy(districtKey) THEN GetProperty(data.tws, districtKey.v) ELSE Null

ObjectKeys(x) == [i \in 1..Len(x.entries) |-> x.entries[i][1]]

\* Line 127: one point per entry, in entry order.
chartData(districtData) ==
  [i \in 1..Len(districtData.entries) |->
     [year |-> districtData.entries[i][1], value |-> districtData.entries[i][2]]]

\* Lines 114-165 without the Object.keys test of line 116.
ChartComponentNoEmptyCheck(districtData, districtName) ==
  IF ~Truthy(districtData)
  THEN [kind |-> "placeholder",
        message |->
          IF Truthy(districtName)
          THEN <<"No TWS data is available for ", districtName.v, ".">>
          ELSE <<"Click a district on the map to view its water status data.">>]
  ELSE [kind |-> "chart", points |-> chartData(districtData)]

\* Lines 114-165.
ChartComponent(districtData, districtName) ==
  IF ~Truthy(districtData) \/ Len(ObjectKeys(districtData)) = 0
  THEN [kind |-> "placeholder",
        message |->
          IF Truthy(districtName)
          THEN <<"No TWS data is available for ", districtName.v, ".">>
          ELSE <<"Click a district on the map to view its water status data.">>]
  ELSE [kind |-> "chart", points |-> chartData(districtData)]

\* Lines 85-110: the base map, and the GeoJSON layer when geojson is truthy.
MapComponent(geojson) == [baseMap |-> TRUE, geoJsonLayer |-> Truthy(geojson)]

\* Lines 198-244: what App returns.
App ==
  IF loading THEN [view |-> "loading"]
  ELSE IF Truthy(error) THEN [view |-> "error", text |-> error.v]
  ELSE [view |-> "layout",
        map |-> MapComponent(data.geojson),
        title |-> IF Truthy(selectedDistrict)
                  THEN selectedDistrict
                  ELSE Message("No District Selected"),
        chart |-> ChartComponent(selectedDistrictData, selectedDistrict)]

\* What is on the page: an error thrown while the tree renders is caught by
\* no error boundary, so React unmounts the whole tree.
Screen == IF mapState = "crashed" THEN [view |-> "blank"] ELSE App

\* --------------------------------------------------------------- loader
\* Lines 56-60: catch stores the message, finally clears loading; the two run
\* in one synchronous continuation, and while loading is still true App
\* returns the loading view whatever error holds.
Catch(message) ==
  /\ error' = Message(message)
  /\ loading' = FALSE
  /\ pc' = "done"
  /\ UNCHANGED <<data, geojsonData>>

\* Line 32 with the second operand dropped.
NotOkTwsOnly(tws, geojson) == ~tws.ok

\* Line 32.
NotOk(tws, geojson) == ~tws.ok \/ ~geojson.ok

\* Lines 42-49, the conversion the code has commented out: keys lowercased.
LoadedLowercased(twsLookupObject, geojson) ==
  [tws |-> [k \in {ToLowerCase(j) : j \in DOMAIN twsLookupObject} |->
              twsLookupObject[CHOOSE j \in DOMAIN twsLookupObject : ToLowerCase(j) = k]],
   geojson |-> geojson]

\* Line 53: the object handed to setData.
Loaded(twsLookupObject, geojson) == [tws |-> twsLookupObject, geojson |-> geojson]

\* Lines 24-30 and 62-63: the effect runs once, on mount, and calls fetchData,
\* which issues both requests before it awaits.
Mount ==
  /\ pc = "mount"
  /\ twsRes' = Pending
  /\ geojsonRes' = Pending
  /\ fetchCalls' = [tws |-> fetchCalls.tws + 1, boundaries |-> fetchCalls.boundaries + 1]
  /\ pc' = "awaitAll"
  /\ UNCHANGED <<data, loading, error, selectedDistrict, geojsonData, layers,
                 mapState, clicks, lastClick>>

\* The network answers /api/tws.
TwsResponds ==
  /\ twsRes.state = "pending"
  /\ \E r \in TwsResponses : twsRes' = Fulfilled(r)
  /\ UNCHANGED <<data, loading, error, selectedDistrict, pc, geojsonRes,
                 geojsonData, layers, mapState, fetchCalls, clicks, lastClick>>

\* The request to /api/tws fails: fetch rejects.
TwsFails ==
  /\ twsRes.state = "pending"
  /\ twsRes' = Rejected
  /\ UNCHANGED <<data, loading, error, selectedDistrict, pc, geojsonRes,
                 geojsonData, layers, mapState, fetchCalls, clicks, lastClick>>

\* The network answers /api/boundaries.
GeojsonResponds ==
  /\ geojsonRes.state = "pending"
  /\ \E r \in GeojsonResponses : geojsonRes' = Fulfilled(r)
  /\ UNCHANGED <<data, loading, error, selectedDistrict, pc, twsRes,
                 geojsonData, layers, mapState, fetchCalls, clicks, lastClick>>

\* The request to /api/boundaries fails: fetch rejects.
GeojsonFails ==
  /\ geojsonRes.state = "pending"
  /\ geojsonRes' = Rejected
  /\ UNCHANGED <<data, loading, error, selectedDistrict, pc, twsRes,
                 geojsonData, layers, mapState, fetchCalls, clicks, lastClick>>

\* Line 27: Promise.all rejects as soon as one of its promises rejects.
AwaitAllRejects ==
  /\ pc = "awaitAll"
  /\ twsRes.state = "rejected" \/ geojsonRes.state = "rejected"
  /\ Catch("Failed to fetch")
  /\ UNCHANGED <<selectedDistrict, twsRes, geojsonRes, layers, mapState,
                 fetchCalls, clicks, lastClick>>

\* Lines 27-37: Promise.all fulfils once both promises have; then the status
\* check, then the call of geojsonRes.json().
AwaitAllFulfils ==
  /\ pc = "awaitAll"
  /\ twsRes.state = "fulfilled" /\ geojsonRes.state = "fulfilled"
  /\ IF NotOk(twsRes.res, geojsonRes.res)
     THEN Catch("Network response was not ok")
     ELSE /\ pc' = "geojsonJson"
          /\ UNCHANGED <<data, loading, error, geojsonData>>
  /\ UNCHANGED <<selectedDistrict, twsRes, geojsonRes, layers, mapState,
                 fetchCalls, clicks, lastClick>>

\* Lines 37 and 51 if the boundaries were published as soon as they are parsed.
GeojsonJsonPublishes ==
  /\ pc = "geojsonJson"
  /\ IF geojsonRes.res.body.t = "malformed"
     THEN Catch("Unexpected token in JSON")
     ELSE /\ geojsonData' = geojsonRes.res.body.v
          /\ data' = [tws |-> data.tws, geojson |-> geojsonRes.res.body.v]
          /\ pc' = "twsJson"
          /\ UNCHANGED <<loading, error>>
  /\ UNCHANGED <<selectedDistrict, twsRes, geojsonRes, layers, mapState,
                 fetchCalls, clicks, lastClick>>

\* Lines 37 and 51: geojsonRes.json() settles; on success twsRes.json() is called.
GeojsonJson ==
  /\ pc = "geojsonJson"
  /\ IF geojsonRes.res.body.t = "malformed"
     THEN Catch("Unexpected token in JSON")
     ELSE /\ geojsonData' = geojsonRes.res.body.v
          /\ pc' = "twsJson"
          /\ UNCHANGED <<data, loading, error>>
  /\ UNCHANGED <<selectedDistrict, twsRes, geojsonRes, layers, mapState,
                 fetchCalls, clicks, lastClick>>

\* Lines 51-60: twsRes.json() settles; on success setData, then finally.
TwsJson ==
  /\ pc = "twsJson"
  /\ IF twsRes.res.body.t = "malformed"
     THEN Catch("Unexpected token in JSON")
     ELSE /\ data' = Loaded(twsRes.res.body.v, geojsonData)
          /\ loading' = FALSE
          /\ pc' = "done"
          /\ UNCHANGED <<error, geojsonData>>
  /\ UNCHANGED <<selectedDistrict, twsRes, geojsonRes, layers, mapState,
                 fetchCalls, clicks, lastClick>>

\* ------------------------------------------------------------------ map
\* Line 71: reading DISTRICT of a null properties throws a TypeError.
Throws(feature) == feature.properties.t = "null"

\* Line 71.
districtName(feature) ==
  IF Truthy(feature.properties.DISTRICT)
  THEN feature.properties.DISTRICT
  ELSE Str(Unknown)

\* Lines 96-107 and 70-83: once App returns the layout with a truthy geojson,
\* the GeoJSON layer is built and onEachFeature runs for every feature,
\* attaching the click listener of line 79.
OnEachFeature ==
  /\ mapState = "none"
  /\ App.view = "layout"
  /\ App.map.geoJsonLayer
  /\ IF \E f \in data.geojson.features : Throws(f)
     THEN /\ mapState' = "crashed"
          /\ UNCHANGED layers
     ELSE /\ mapState' = "mounted"
          /\ layers' = [f \in data.geojson.features |-> districtName(f)]
  /\ UNCHANGED <<data, loading, error, selectedDistrict, pc, twsRes, geojsonRes,
                 geojsonData, fetchCalls, clicks, lastClick>>

\* Lines 172-174 if the selection were kept unless the dataset knows the name.
handleKnownDistrictClick(name) ==
  selectedDistrict' =
    IF ToLowerCase(Trim(name.v)) \in DOMAIN data.tws THEN name ELSE selectedDistrict

\* Lines 172-174.
handleDistrictClick(name) == selectedDistrict' = name

\* Line 79: a click on a feature's polygon.
Click ==
  /\ mapState = "mounted"
  /\ clicks < MaxClicks
  /\ \E f \in DOMAIN layers :
       /\ handleDistrictClick(layers[f])
       /\ lastClick' = layers[f]
  /\ clicks' = clicks + 1
  /\ UNCHANGED <<data, loading, error, pc, twsRes, geojsonRes, geojsonData,
                 layers, mapState, fetchCalls>>

Next ==
  \/ Mount
  \/ TwsResponds
  \/ TwsFails
  \/ GeojsonResponds
  \/ GeojsonFails
  \/ AwaitAllRejects
  \/ AwaitAllFulfils
  \/ GeojsonJson
  \/ TwsJson
  \/ OnEachFeature
  \/ Click

Spec == Init /\ [][Next]_vars

\* ------------------------------------------------------------ vocabulary
TypeOK ==
  /\ loading \in BOOLEAN
  /\ pc \in {"mount", "awaitAll", "geojsonJson", "twsJson", "done"}
  /\ mapState \in {"none", "mounted", "crashed"}
  /\ clicks \in 0..MaxClicks

\* trim then lowercase, as the specification defines the normalized key.
Normalize(s) == ToLowerCase(Trim(s))

InitialData == [tws |-> EmptyObject, geojson |-> Null]

\* The loader's observable states.
Loading == loading
ErrorState == ~loading /\ Truthy(error)
Ready == ~loading /\ ~Truthy(error)

Settled(p) == p.state \in {"fulfilled", "rejected"}

\* A request's outcome is a failure: it rejected, or its status is not 2xx,
\* or its body does not parse.
Failed(p) ==
  \/ p.state = "rejected"
  \/ p.state = "fulfilled" /\ (~p.res.ok \/ p.res.body.t = "malformed")

\* A request's outcome is a 2xx response whose body parses.
Valid(p) == p.state = "fulfilled" /\ p.res.ok /\ p.res.body.t = "json"

\* fetchData has a step to take.
LoaderCanStep == ENABLED (AwaitAllRejects \/ AwaitAllFulfils \/ GeojsonJson \/ TwsJson)

NoDataPlaceholder(name) ==
  [kind |-> "placeholder", message |-> <<"No TWS data is available for ", name, ".">>]

ClickPlaceholder ==
  [kind |-> "placeholder",
   message |-> <<"Click a district on the map to view its water status data.">>]

\* ---------------------------------------------------------------- claims

\* C1: whenever both startup requests have an outcome and at least one of
\* them failed (rejected, non-2xx, or unparseable body), fetchData runs on
\* to its end, and at its end loading is false, error holds a message, the
\* page shows only that message and no map layer exists; once the loader is
\* in the error state it stays there and the page keeps showing the error.
C1_FailureEndsInError ==
  /\ [](/\ (Settled(twsRes) /\ Settled(geojsonRes) /\ pc # "done") => LoaderCanStep
        /\ (pc = "done" /\ (Failed(twsRes) \/ Failed(geojsonRes))) =>
             /\ ErrorState
             /\ Screen = [view |-> "error", text |-> error.v]
             /\ mapState = "none"
             /\ layers = EmptyObject)
  /\ [][ErrorState => (ErrorState' /\ Screen' = Screen /\ mapState' = "none")]_vars

\* C1 witness: /api/tws answered 2xx with an unparseable body, /api/boundaries
\* answered well, and the page shows the error.
C1_Witness ==
  /\ pc = "done"
  /\ Valid(geojsonRes)
  /\ twsRes.state = "fulfilled" /\ twsRes.res.ok /\ twsRes.res.body.t = "malformed"
  /\ Screen.view = "error"

\* C2: when both responses are 2xx and both bodies parse, fetchData runs on to
\* its end, and at its end loading is false, error is null, tws is the parsed
\* /api/tws body and geojson is the parsed /api/boundaries body, unchanged.
C2_ValidPairIsPublishedVerbatim ==
  /\ (Valid(twsRes) /\ Valid(geojsonRes) /\ pc # "done") => LoaderCanStep
  /\ (pc = "done" /\ Valid(twsRes) /\ Valid(geojsonRes)) =>
       /\ loading = FALSE
       /\ error = Null
       /\ data.tws = twsRes.res.body.v
       /\ data.geojson = geojsonRes.res.body.v

\* C2 witness: a payload with a key that is not normalized and a non-empty
\* collection have been published.
C2_Witness ==
  /\ pc = "done"
  /\ Valid(twsRes) /\ Valid(geojsonRes)
  /\ <<"B", "a">> \in DOMAIN data.tws
  /\ data.geojson.features # {}

\* C3: in the ready state, after a click on a feature whose display name
\* normalizes to a key of the dataset, the series handed to the chart is the
\* dataset's entry for that key.
C3_LookupHit ==
  (Ready /\ mapState = "mounted" /\ clicks > 0
    /\ Normalize(selectedDistrict.v) \in DOMAIN data.tws)
  => selectedDistrictData = Series(data.tws[Normalize(selectedDistrict.v)])

\* C4: in every ready state every key of the loaded dataset equals its own
\* normalized form, and a click on a feature whose normalized name equals the
\* normalized form of a key of the received payload is not a lookup miss.
C4_DatasetKeysNormalized ==
  (pc = "done" /\ Ready) =>
    /\ \A k \in DOMAIN data.tws : Normalize(k) = k
    /\ (mapState = "mounted" /\ clicks > 0
         /\ \E k \in DOMAIN twsRes.res.body.v : Normalize(k) = Normalize(selectedDistrict.v))
       => selectedDistrictData.t = "object"

\* C5: in the ready state, after a click on a feature whose normalized name is
\* not a key of the dataset, the page is the two-pane layout and the chart pane
\* is the placeholder "No TWS data is available for <raw name>."; a click
\* leaves the loader's state alone and does not crash the page.
C5_LookupMiss ==
  /\ []((Ready /\ mapState = "mounted" /\ clicks > 0
          /\ Normalize(selectedDistrict.v) \notin DOMAIN data.tws)
        => /\ Screen.view = "layout"
           /\ Screen.chart = NoDataPlaceholder(selectedDistrict.v)
           /\ Screen.title = selectedDistrict)
  /\ [][clicks' # clicks =>
          (UNCHANGED <<data, loading, error>> /\ mapState' = "mounted"
             /\ Screen'.view = "layout")]_vars

\* C5 witness: "constructor" was clicked, the dataset has no such key, and
\* the placeholder is shown.
C5_Witness ==
  /\ Ready /\ mapState = "mounted" /\ clicks > 0
  /\ selectedDistrict = Str(<<"c", "o", "n", "s", "t", "r", "u", "c", "t", "o", "r">>)
  /\ DOMAIN data.tws # {}
  /\ Screen.chart = NoDataPlaceholder(selectedDistrict.v)

\* C6: after any clicks selectedDistrict is the name the most recent click
\* reported, in the dataset or not; it changes only on a click; once it
\* holds a name it never is null again.
C6_SelectionFollowsLastClick ==
  /\ [](IF clicks = 0 THEN selectedDistrict = Null
        ELSE selectedDistrict = lastClick /\ selectedDistrict.t = "string")
  /\ [][selectedDistrict' # selectedDistrict => clicks' = clicks + 1]_vars
  /\ [][selectedDistrict # Null => selectedDistrict' # Null]_vars

\* C6 witness: two clicks, the last on a feature without DISTRICT, whose
\* name "Unknown" the dataset does not have.
C6_Witness ==
  /\ clicks >= 2
  /\ selectedDistrict = Str(Unknown)
  /\ lastClick = Str(Unknown)
  /\ Cardinality(DOMAIN layers) >= 2
  /\ DOMAIN data.tws # {}
  /\ Normalize(Unknown) \notin DOMAIN data.tws

\* C7: the loader is in exactly one of loading, error and ready, and the page
\* shows the loading message, the error message or the full layout
\* accordingly; each endpoint is requested at most once.
C7_ThreeStatesRendered ==
  /\ (Loading => Screen.view = "loading")
  /\ (ErrorState => Screen.view = "error")
  /\ (Ready => Screen.view = "layout")
  /\ fetchCalls.tws <= 1 /\ fetchCalls.boundaries <= 1

\* C8: the loader leaves the loading state only when both requests have
\* completed or one has failed; the two datasets are published together or
\* not at all; a failure of either request leaves nothing published,
\* whichever response arrived first.
C8_JoinedNoPartialSuccess ==
  /\ (~loading) =>
       \/ twsRes.state = "fulfilled" /\ geojsonRes.state = "fulfilled"
       \/ twsRes.state = "rejected"
       \/ geojsonRes.state = "rejected"
  /\ \/ data = InitialData
     \/ /\ Valid(twsRes) /\ Valid(geojsonRes)
        /\ data = [tws |-> twsRes.res.body.v, geojson |-> geojsonRes.res.body.v]
  /\ (Failed(twsRes) \/ Failed(geojsonRes)) => data = InitialData
  /\ (pc = "done" /\ (Failed(twsRes) \/ Failed(geojsonRes))) => ErrorState

\* C8 witness: /api/boundaries answered well, /api/tws was rejected, and the
\* load was aborted with nothing published.
C8_Witness ==
  /\ pc = "done"
  /\ Valid(geojsonRes)
  /\ twsRes.state = "rejected"
  /\ ErrorState
  /\ data = InitialData

\* C9: in every ready state before any click the chart pane shows "Click a
\* district on the map to view its water status data." and the title shows
\* "No District Selected".
C9_NoSelection ==
  (Ready /\ clicks = 0) =>
    /\ Screen.view = "layout"
    /\ Screen.chart = ClickPlaceholder
    /\ Screen.title = Message("No District Selected")

\* C10: building the layer never fails, and every feature's click listener
\* reports the feature's DISTRICT when the feature has one and "Unknown" when
\* it has none.
C10_UnknownFallback ==
  /\ mapState # "crashed"
  /\ mapState = "mounted" =>
       \A f \in DOMAIN layers :
         layers[f] =
           IF f.properties.t = "object" /\ f.properties.DISTRICT.t # "undefined"
           THEN f.properties.DISTRICT
           ELSE Str(Unknown)

\* ------------------------------------------------- what holds besides
\* Of C7: as long as the page has not crashed it shows the view of the
\* loader's state; each endpoint is requested at most once; the error state
\* is never left; published data never changes.
LoaderStatesWhereRendered ==
  /\ [](mapState # "crashed" =>
          /\ (Loading => Screen.view = "loading")
          /\ (ErrorState => Screen.view = "error")
          /\ (Ready => Screen.view = "layout"))
  /\ [](fetchCalls.tws <= 1 /\ fetchCalls.boundaries <= 1)
  /\ [][ErrorState => ErrorState']_vars
  /\ [][Ready => (Ready' /\ data' = data)]_vars

\* Of C9: in a ready state before any click, a page that has not crashed
\* shows the "Click a district" placeholder and "No District Selected".
NoSelectionWhereRendered ==
  (Ready /\ clicks = 0 /\ mapState # "crashed") =>
    /\ Screen.view = "layout"
    /\ Screen.chart = ClickPlaceholder
    /\ Screen.title = Message("No District Selected")

\* Of C10: when the layer is built, a feature with a non-empty DISTRICT
\* reports it and every other feature reports "Unknown".
UnknownFallbackWhereBuilt ==
  mapState = "mounted" =>
    \A f \in DOMAIN layers :
      layers[f] =
        IF f.properties.DISTRICT.t = "string" /\ f.properties.DISTRICT.v # <<>>
        THEN f.properties.DISTRICT
        ELSE Str(Unknown)

\* Of C3: the lookup hits whenever the normalized name is a non-empty key.
LookupHitNonEmptyKey ==
  (Ready /\ mapState = "mounted" /\ clicks > 0
    /\ Normalize(selectedDistrict.v) # <<>>
    /\ Normalize(selectedDistrict.v) \in DOMAIN data.tws)
  => /\ selectedDistrictData = Series(data.tws[Normalize(selectedDistrict.v)])
     /\ Screen.chart =
          IF data.tws[Normalize(selectedDistrict.v)] = <<>>
          THEN NoDataPlaceholder(selectedDistrict.v)
          ELSE [kind |-> "chart", points |-> chartData(selectedDistrictData)]

====
